---- MODULE Spec2Model ----
(***************************************************************************)
(* Samsung LHB55ECH display adapter (src/samsung_display_adapter.py):      *)
(* the MDC frame codec, the per-device session with its retry loop, the    *)
(* alert store, the monitoring loop, the system status and the video wall  *)
(* layout manager, each as a state machine.                               *)
(*                                                                         *)
(* The module holds several specifications over one set of variables:      *)
(*   SpecCodec    _create_mdc_packet / _parse_mdc_response on byte strings  *)
(*   Spec         one session used by two asyncio tasks (send_command)     *)
(*   SpecAlerts   _add_alert under an advancing clock                      *)
(*   SpecCap      _add_alert past the 100-entry cap                        *)
(*   SpecMonitor  start_monitoring / stop_monitoring and one cycle's       *)
(*                gather over the fleet                                    *)
(*   SpecSetters  set_volume / set_video_wall_mode in front of send_command *)
(*   SpecRules    _process_health_result on one health record              *)
(*   SpecStatus   get_system_status over stores of alerts of any age       *)
(*   SpecFleetStatus  the monitoring loop with get_system_status callers   *)
(*   SpecWall     VideoWallLayoutManager: layouts and configure_video_wall *)
(*   SpecLargeWall  walls of up to 16 displays with their planned layouts  *)
(*   SpecSerial   one session whose operations never overlap, with         *)
(*                disconnect                                               *)
(*   SpecMonitorLive  SpecMonitor with a fair event loop                   *)
(* A specification leaves the variables of the other components at their   *)
(* initial values.                                                         *)
(***************************************************************************)
EXTENDS Integers, Sequences, FiniteSets, TLC

VARIABLES
    \* ---- frame codec ----
    cmd,            \* command code of the frame being built
    devId,          \* display_id of the adapter that builds the frame
    payload,        \* data bytes handed to _create_mdc_packet
    expectedId,     \* display_id of the adapter that parses
    frame,          \* bytes handed to _parse_mdc_response
    decoded,        \* what _parse_mdc_response returned
    cstage,         \* "input", "encoded", "tampered", "truncated", "decoded..."
    \* ---- one device session (SamsungLHB55ECHAdapter) ----
    connected,          \* self.connected
    errorCount,         \* self.error_count
    lastResponseTime,   \* self.last_response_time: "None", or "set" once a
                        \* non-empty response was read (the time itself is left out)
    transport,          \* how the network behaves: "any", or one way of always failing
    pc,                 \* per task: where its coroutine is suspended
    attempt,            \* per task: the retry loop's index in the running send_command
    delays,             \* per task: asyncio.sleep(1) calls made by the running send_command
    expect,             \* per task: expect_response of the running send_command
    calls,              \* per task: operations started so far
    last,               \* what the user task's latest finished send_command returned
    hcPhase,            \* the step health_check is in
    health,             \* health_data of the running or latest health_check
    request,            \* history: the user task's latest call, its arguments and
                        \* the session fields it found
    queries,            \* history: per step of the running or latest health_check,
                        \* what its send_command returned
    writer,             \* self.writer: "none" before the first connect, "open", or
                        \* "closed" once its transport was closed or lost
    \* ---- alert store (MonitoringDashboard) ----
    alerts,             \* self.alerts
    now,                \* time.time(), in seconds
    accepted,           \* history: every alert _add_alert appended, in order
    lastAdd,            \* history: the latest _add_alert call and the store it found
    pattern,            \* which levels the alerts of SpecCap carry
    \* ---- monitoring loop (MonitoringDashboard) ----
    monitoringActive,   \* self.monitoring_active
    loopPc,             \* where start_monitoring is: "none", "scheduled", "gather",
                        \* "sleeping", "exited"
    adapters,           \* per display: connected, error_count, last_response_time
    chk,                \* per display: where its _check_display_health task is
    results,            \* per display: the health record its task returned
    cycleRecords,       \* the records the latest finished cycle handed to
                        \* _process_health_result, in order
    cycles,             \* cycles finished
    outcome,            \* history: per display, how its check of this cycle went
    stopAt,             \* history: where the loop was when stop_monitoring
                        \* cleared the flag, or was called on the task that
                        \* had not yet run
    status,             \* what the latest get_system_status returned
    \* ---- video wall layouts (VideoWallLayoutManager) ----
    displays,           \* keys of self.displays, in iteration order
    layouts,            \* self.layouts, keyed by <<h, v>> for the name "hxv"
    wallPc,             \* "new", "planned", "configuring", "returned"
    wallLayout,         \* layout_name of the running or latest configure_video_wall
    wallAdapters,       \* keys of the adapters handed to configure_video_wall
    wallTodo,           \* display ids the loop of configure_video_wall has yet to
                        \* finish, the awaited one first
    wallResults,        \* results of configure_video_wall, per display id
    wallOrder,          \* history: display ids in the order their result was stored
    wallReturn          \* what configure_video_wall returned

codecVars == <<cmd, devId, payload, expectedId, frame, decoded, cstage>>

sessionVars == <<connected, errorCount, lastResponseTime, transport, pc, attempt,
                 delays, expect, calls, last, hcPhase, health, request, queries,
                 writer>>

alertVars == <<alerts, now, accepted, lastAdd, pattern>>

monitorVars == <<monitoringActive, loopPc, adapters, chk, results, cycleRecords,
                 cycles, outcome, stopAt>>

wallVars == <<displays, layouts, wallPc, wallLayout, wallAdapters, wallTodo,
              wallResults, wallOrder, wallReturn>>

vars == <<codecVars, sessionVars, alertVars, monitorVars, status, wallVars>>

-----------------------------------------------------------------------------
(* Bounds and program constants                                            *)

\* longest payload the codec specification enumerates
MaxPayloadLen == 2

\* header literal of every MDC frame
Header == 170

\* MDCCommand members the model uses
POWER == 17
CURRENT_TEMP == 43
VIDEO_WALL_MODE == 132
SERIAL_NUMBER == 44
VOLUME == 18
SOFTWARE_VERSION == 45
MODEL_NUMBER == 46

\* self.max_retries
MaxRetries == 3

\* send_command calls of the user task, and health checks of the monitor task
MaxCalls == 1

\* calls of the validated setters the user task makes in SpecSetters
MaxSetterCalls == 2

\* _add_alert: the window in which a message is not stored again, in seconds
DedupWindow == 300

\* _add_alert: the most alerts the store keeps
AlertCap == 100

\* the clock of SpecAlerts stops here
MaxTime == 450

\* alerts SpecCap adds
MaxInserts == 103

\* displays of the monitored fleet
NumDisplays == 2

\* most displays handed to the layout manager
MaxWallDisplays == 4

\* the largest wall handed to the layout manager in SpecLargeWall
MaxLargeWall == 16

\* monitoring cycles SpecMonitor runs
MaxCycles == 2

\* get_system_status: alerts younger than this many seconds are recent
RecentWindow == 3600

\* most alerts in the stores SpecStatus starts from
MaxStatusAlerts == 3

\* self.monitoring_interval, in seconds
MonitoringInterval == 30

\* self.alert_thresholds
TemperatureWarning == 70
TemperatureCritical == 80
ResponseTimeout == 10
ErrorCountWarning == 3

Commands == {POWER, CURRENT_TEMP, VIDEO_WALL_MODE}

\* display ids: 43 makes 0xAA + CURRENT_TEMP + id a multiple of 256
DeviceIds == {1, 2, 43}

\* payload byte values: both ends of the byte range and one in between
ByteSamples == {0, 1, 255}

Bytes == 0..255

-----------------------------------------------------------------------------
(* Frame codec                                                             *)

RECURSIVE SumBytes(_)
SumBytes(s) == IF s = <<>> THEN 0 ELSE Head(s) + SumBytes(Tail(s))

Min(a, b) == IF a < b THEN a ELSE b

\* Python's s[lo:hi] on a byte string (0-based, hi exclusive, clipped to the length)
Slice(s, lo, hi) == SubSeq(s, lo + 1, Min(hi, Len(s)))

\* a packet that omits the length byte from the sum
BadChecksumNoLength(c, id, data) == (Header + c + id + SumBytes(data)) % 256

\* checksum = (header + cmd + display_id + data_length + sum(data)) & 0xFF
Checksum(c, id, data) == (Header + c + id + Len(data) + SumBytes(data)) % 256

\* _create_mdc_packet: struct.pack('BBBB', ...) + data + struct.pack('B', checksum)
CreateMdcPacket(c, id, data) ==
    <<Header, c, id, Len(data)>> \o data \o <<Checksum(c, id, data)>>

ParseFail(msg) == [success |-> FALSE, error |-> msg, command |-> 0, data |-> <<>>]

ParseOk(c, data) == [success |-> TRUE, error |-> "", command |-> c, data |-> data]

\* a parser that does not verify the checksum
ParseNoChecksum(response, id) ==
    IF Len(response) < 4 THEN ParseFail("Response too short")
    ELSE IF response[1] # Header THEN ParseFail("Invalid header")
    ELSE IF response[3] # id THEN ParseFail("Display ID mismatch")
    ELSE ParseOk(response[2], Slice(response, 4, 4 + response[4]))

\* a parser that accepts frames addressed to any display
ParseNoIdCheck(response, id) ==
    IF Len(response) < 4 THEN ParseFail("Response too short")
    ELSE IF response[1] # Header THEN ParseFail("Invalid header")
    ELSE LET n == response[4]
             data == IF n > 0 THEN Slice(response, 4, 4 + n) ELSE <<>>
             checksum == IF Len(response) > 4 + n THEN response[4 + n + 1] ELSE 0
         IN IF checksum # (response[1] + response[2] + response[3] + n
                            + SumBytes(data)) % 256
            THEN ParseFail("Checksum mismatch")
            ELSE ParseOk(response[2], data)

\* _parse_mdc_response, for the adapter whose display_id is id
ParseMdcResponse(response, id) ==
    IF Len(response) < 4 THEN ParseFail("Response too short")
    ELSE LET header == response[1]
             c == response[2]
             display_id == response[3]
             data_length == response[4]
         IN IF header # Header THEN ParseFail("Invalid header")
            ELSE IF display_id # id THEN ParseFail("Display ID mismatch")
            ELSE LET data == IF data_length > 0
                             THEN Slice(response, 4, 4 + data_length)
                             ELSE <<>>
                     checksum == IF Len(response) > 4 + data_length
                                 THEN response[4 + data_length + 1]
                                 ELSE 0
                     expected_checksum ==
                         (header + c + display_id + data_length + SumBytes(data)) % 256
                 IN IF checksum # expected_checksum
                    THEN ParseFail("Checksum mismatch")
                    ELSE ParseOk(c, data)

Payloads == UNION {[1..n -> ByteSamples] : n \in 0..MaxPayloadLen}

NoResult == ParseFail("none")

\* the adapter builds the frame
Encode ==
    /\ cstage = "input"
    /\ frame' = CreateMdcPacket(cmd, devId, payload)
    /\ cstage' = "encoded"
    /\ UNCHANGED <<cmd, devId, payload, expectedId, decoded>>

\* the wire replaces the checksum byte by another value
TamperChecksum ==
    /\ cstage = "encoded"
    /\ \E b \in Bytes :
          /\ b # frame[Len(frame)]
          /\ frame' = [frame EXCEPT ![Len(frame)] = b]
    /\ cstage' = "tampered"
    /\ UNCHANGED <<cmd, devId, payload, expectedId, decoded>>

\* the wire delivers only the first k bytes of the frame
Truncate ==
    /\ cstage = "encoded"
    /\ \E k \in 0..(Len(frame) - 1) : frame' = SubSeq(frame, 1, k)
    /\ cstage' = "truncated"
    /\ UNCHANGED <<cmd, devId, payload, expectedId, decoded>>

\* the receiving adapter parses what arrived
Decode ==
    /\ cstage \in {"encoded", "tampered", "truncated"}
    /\ decoded' = ParseMdcResponse(frame, expectedId)
    /\ cstage' = IF cstage = "encoded" THEN "decoded"
                 ELSE IF cstage = "tampered" THEN "decodedTampered"
                 ELSE "decodedTruncated"
    /\ UNCHANGED <<cmd, devId, payload, expectedId, frame>>

-----------------------------------------------------------------------------
(* Device session: connect, send_command and health_check of one adapter,  *)
(* run by two asyncio tasks.  A task runs without interruption from one    *)
(* await to the next, so an action is the code between two suspension      *)
(* points: the awaited connect, drain, read or sleep finishing, and        *)
(* everything the coroutine then does up to its next await.                *)

Tasks == {"user", "monitor"}

\* display_id of the modelled adapter, and the id of some other display
DisplayId == 1
OtherId == 2

\* the data the display puts in its replies
ReplyData == <<72>>

\* a call of the user task: the method, its arguments, the command and data it
\* hands to send_command, the error validation returned ("" when it passed), and the session's
\* connected, error_count and last_response_time when it was made
Request(op, args, c, data, error) ==
    [op |-> op, args |-> args, command |-> c, data |-> data, error |-> error,
     found |-> <<connected, errorCount, lastResponseTime>>]

NoRequest ==
    [op |-> "none", args |-> <<>>, command |-> POWER, data |-> <<>>,
     error |-> "", found |-> <<FALSE, 0, "None">>]

\* the queries health_check makes through send_command, in order
QuerySteps == {"temp", "model", "serial", "version"}

NoQueries == [p \in QuerySteps |-> "none"]

CommandOf(t) ==
    IF t = "user" THEN request.command
    ELSE IF hcPhase = "temp" THEN CURRENT_TEMP
    ELSE IF hcPhase = "model" THEN MODEL_NUMBER
    ELSE IF hcPhase = "serial" THEN SERIAL_NUMBER
    ELSE SOFTWARE_VERSION

\* what reader.read(1024) can deliver for a command: the display's reply, the
\* reply with a damaged checksum, another display's reply, a fragment, nothing
Replies(c) ==
    LET good == CreateMdcPacket(c, DisplayId, ReplyData)
    IN {good,
        [good EXCEPT ![Len(good)] = (good[Len(good)] + 1) % 256],
        CreateMdcPacket(c, OtherId, ReplyData),
        <<Header>>,
        <<>>}

\* a send_command result: "ok" is the parsed response, "sent" is
\* {'success': True, 'message': 'Command sent successfully'}, "failed" is
\* 'Failed after 3 attempts'; attempts counts the loop iterations started,
\* delays the sleeps, warning is the parse error logged by the returning attempt
Result(r, n, d, dat, w) ==
    [result |-> r, attempts |-> n, delays |-> d, data |-> dat, warning |-> w]

NoCall == Result("none", 0, 0, <<>>, "")

NoHealth ==
    [connected |-> FALSE, responsive |-> FALSE, temperature |-> 0,
     error_count |-> 0, last_response |-> "None",
     model |-> FALSE, serial_number |-> FALSE, software_version |-> FALSE]

SetTask(t, p, a, d) ==
    /\ pc' = [pc EXCEPT ![t] = p]
    /\ attempt' = [attempt EXCEPT ![t] = a]
    /\ delays' = [delays EXCEPT ![t] = d]

\* health_check after one of its send_command calls returned r: the field the
\* query fills, then the next query, or the return of health_data
NextPhase(phase) ==
    IF phase = "temp" THEN "model"
    ELSE IF phase = "model" THEN "serial"
    ELSE IF phase = "serial" THEN "version"
    ELSE "done"

\* a health_check in which a failed identity query marks the display not responsive
HealthAfterStrict(h, phase, r) ==
    LET success == r.result \in {"ok", "sent"}
        hasData == r.result = "ok"
    IN IF phase = "temp"
       THEN IF success
            THEN [h EXCEPT !.responsive = TRUE,
                           !.temperature = IF hasData /\ Len(r.data) >= 1
                                           THEN r.data[1] ELSE 0]
            ELSE h
       ELSE IF ~success THEN [h EXCEPT !.responsive = FALSE, !.temperature = 0]
       ELSE IF phase = "model" THEN [h EXCEPT !.model = hasData]
       ELSE IF phase = "serial" THEN [h EXCEPT !.serial_number = hasData]
       ELSE [h EXCEPT !.software_version = hasData]

HealthAfter(h, phase, r) ==
    LET success == r.result \in {"ok", "sent"}
        hasData == r.result = "ok"
    IN IF phase = "temp"
       THEN IF success
            THEN [h EXCEPT !.responsive = TRUE,
                           !.temperature = IF hasData /\ Len(r.data) >= 1
                                           THEN r.data[1] ELSE 0]
            ELSE h
       ELSE IF phase = "model" THEN [h EXCEPT !.model = success /\ hasData]
       ELSE IF phase = "serial" THEN [h EXCEPT !.serial_number = success /\ hasData]
       ELSE [h EXCEPT !.software_version = success /\ hasData]

\* send_command of task t returns r; conn is self.connected at that point
Returned(t, r, conn) ==
    /\ connected' = conn
    /\ IF t = "user"
       THEN /\ last' = r
            /\ SetTask(t, "idle", 0, 0)
            /\ UNCHANGED <<hcPhase, health, expect, queries>>
       ELSE /\ last' = last
            /\ queries' = [queries EXCEPT ![hcPhase] = r.result]
            /\ health' = HealthAfter(health, hcPhase, r)
            /\ hcPhase' = NextPhase(hcPhase)
            /\ expect' = [expect EXCEPT ![t] = TRUE]
            /\ IF NextPhase(hcPhase) = "done"
               THEN SetTask(t, "idle", 0, 0)
               ELSE SetTask(t, IF conn THEN "draining" ELSE "connecting", 0, 0)

\* the head of `for attempt in range(self.max_retries)` reached with index k:
\* past the last index the call returns its failure; otherwise the attempt
\* runs to its first await, connect() when not connected, else write and drain()
LoopTop(t, k, d, conn) ==
    IF k >= MaxRetries
    THEN Returned(t, Result("failed", k, d, <<>>, ""), conn)
    ELSE /\ SetTask(t, IF conn THEN "draining" ELSE "connecting", k, d)
         /\ connected' = conn
         /\ UNCHANGED <<last, hcPhase, health, expect, queries>>

\* asyncio.open_connection succeeded: self.reader and self.writer are
\* replaced; the writer held before is dropped as it is
Opened == writer' = "open"

\* a write or read fault is a lost connection: the transport of self.writer
\* closes its own socket
ConnectionLost == writer' = IF writer = "open" THEN "closed" ELSE writer

\* `except Exception` of send_command: the session is marked not connected,
\* error_count grows, and every attempt but the last sleeps a second
ExceptionPath(t) ==
    /\ errorCount' = errorCount + 1
    /\ ConnectionLost
    /\ IF attempt[t] < MaxRetries - 1
       THEN /\ SetTask(t, "sleeping", attempt[t], delays[t] + 1)
            /\ connected' = FALSE
            /\ UNCHANGED <<last, hcPhase, health, expect, queries>>
       ELSE LoopTop(t, attempt[t] + 1, delays[t], FALSE)

\* the user task calls send_command(POWER, data, expect_response = e)
SendCommand ==
    /\ pc["user"] = "idle"
    /\ calls["user"] < MaxCalls
    /\ calls' = [calls EXCEPT !["user"] = @ + 1]
    /\ request' = [NoRequest EXCEPT !.op = "send_command"]
    /\ \E e \in BOOLEAN :
          /\ expect' = [expect EXCEPT !["user"] = e]
          /\ SetTask("user", IF connected THEN "draining" ELSE "connecting", 0, 0)
    /\ UNCHANGED <<connected, errorCount, lastResponseTime, transport, last,
                   hcPhase, health, queries, writer>>

\* the monitor task calls health_check(): health_data is set up, then connect()
\* is awaited when the session is not connected, else the temperature probe starts
HealthCheck ==
    /\ pc["monitor"] = "idle"
    /\ calls["monitor"] < MaxCalls
    /\ calls' = [calls EXCEPT !["monitor"] = @ + 1]
    /\ health' = [NoHealth EXCEPT !.error_count = errorCount,
                                  !.last_response = lastResponseTime,
                                  !.connected = connected]
    /\ expect' = [expect EXCEPT !["monitor"] = TRUE]
    /\ queries' = NoQueries
    /\ IF connected
       THEN /\ hcPhase' = "temp"
            /\ SetTask("monitor", "draining", 0, 0)
       ELSE /\ hcPhase' = "connect"
            /\ SetTask("monitor", "hcConnecting", 0, 0)
    /\ UNCHANGED <<connected, errorCount, lastResponseTime, transport, last, request,
                   writer>>

\* connect() awaited by health_check finishes
HealthCheckConnected ==
    /\ pc["monitor"] = "hcConnecting"
    /\ \E ok \in BOOLEAN :
          /\ ok => transport # "connectFails"
          /\ ~ok => transport \in {"any", "connectFails"}
          /\ connected' = ok
          /\ errorCount' = IF ok THEN 0 ELSE errorCount
          /\ IF ok THEN Opened ELSE writer' = writer
          /\ health' = [health EXCEPT !.connected = ok]
          /\ IF ok
             THEN /\ hcPhase' = "temp"
                  /\ SetTask("monitor", "draining", 0, 0)
             ELSE /\ hcPhase' = "done"
                  /\ SetTask("monitor", "idle", 0, 0)
    /\ UNCHANGED <<lastResponseTime, transport, expect, calls, last, request, queries>>

\* a connect() in send_command that leaves error_count as it is on success
ConnectDoneKeepsCount(t) ==
    /\ pc[t] = "connecting"
    /\ \E ok \in BOOLEAN :
          /\ ok => transport # "connectFails"
          /\ ~ok => transport \in {"any", "connectFails"}
          /\ errorCount' = errorCount
          /\ IF ok THEN Opened ELSE writer' = writer
          /\ IF ok
             THEN /\ connected' = TRUE
                  /\ SetTask(t, "draining", attempt[t], delays[t])
                  /\ UNCHANGED <<last, hcPhase, health, expect, queries>>
             ELSE LoopTop(t, attempt[t] + 1, delays[t], FALSE)
    /\ UNCHANGED <<lastResponseTime, transport, calls, request>>

\* a connect() that lets its failure escape into send_command's handler
ConnectDoneRaising(t) ==
    /\ pc[t] = "connecting"
    /\ \E ok \in BOOLEAN :
          /\ ok => transport # "connectFails"
          /\ ~ok => transport \in {"any", "connectFails"}
          /\ IF ok
             THEN /\ errorCount' = 0
                  /\ connected' = TRUE
                  /\ Opened
                  /\ SetTask(t, "draining", attempt[t], delays[t])
                  /\ UNCHANGED <<last, hcPhase, health, expect, queries>>
             ELSE ExceptionPath(t)
    /\ UNCHANGED <<lastResponseTime, transport, calls, request>>

\* connect() awaited by send_command finishes: on success the packet is
\* written and drain() awaited; on failure `continue`
ConnectDone(t) ==
    /\ pc[t] = "connecting"
    /\ \E ok \in BOOLEAN :
          /\ ok => transport # "connectFails"
          /\ ~ok => transport \in {"any", "connectFails"}
          /\ errorCount' = IF ok THEN 0 ELSE errorCount
          /\ IF ok THEN Opened ELSE writer' = writer
          /\ IF ok
             THEN /\ connected' = TRUE
                  /\ SetTask(t, "draining", attempt[t], delays[t])
                  /\ UNCHANGED <<last, hcPhase, health, expect, queries>>
             ELSE LoopTop(t, attempt[t] + 1, delays[t], FALSE)
    /\ UNCHANGED <<lastResponseTime, transport, calls, request>>

\* writer.drain() finishes or raises
DrainDone(t) ==
    /\ pc[t] = "draining"
    /\ \E ok \in BOOLEAN :
          /\ ok => transport # "writeRaises" /\ writer = "open"
          /\ ~ok => transport \in {"any", "writeRaises"} \/ writer # "open"
          /\ IF ok
             THEN /\ errorCount' = errorCount
                  /\ writer' = writer
                  /\ IF expect[t]
                     THEN /\ SetTask(t, "reading", attempt[t], delays[t])
                          /\ UNCHANGED <<connected, last, hcPhase, health, expect, queries>>
                     ELSE Returned(t, Result("sent", attempt[t] + 1, delays[t], <<>>, ""),
                                   connected)
             ELSE ExceptionPath(t)
    /\ UNCHANGED <<lastResponseTime, transport, calls, request>>

\* wait_for(reader.read(1024), 5.0) times out: the session is marked not
\* connected and the loop continues without a sleep
ReadTimeout(t) ==
    /\ pc[t] = "reading"
    /\ transport \in {"any", "readTimesOut"}
    /\ LoopTop(t, attempt[t] + 1, delays[t], FALSE)
    /\ UNCHANGED <<errorCount, lastResponseTime, transport, calls, request, writer>>

\* the read raises (connection reset, or a second reader on the same stream)
ReadRaises(t) ==
    /\ pc[t] = "reading"
    /\ transport = "any"
    /\ ExceptionPath(t)
    /\ UNCHANGED <<lastResponseTime, transport, calls, request>>

\* send_command after the read delivered `response`
AfterRead(t, response) ==
    LET parsed == ParseMdcResponse(response, DisplayId)
        tries == attempt[t] + 1
    IN /\ lastResponseTime' = IF response # <<>> THEN "set" ELSE lastResponseTime
       /\ IF response = <<>>
          THEN Returned(t, Result("sent", tries, delays[t], <<>>, ""), connected)
          ELSE IF parsed.success
          THEN Returned(t, Result("ok", tries, delays[t], parsed.data, ""), connected)
          ELSE \* logger.warning, then the fall through to line 221
               Returned(t, Result("sent", tries, delays[t], <<>>, parsed.error),
                        connected)

\* the read delivers bytes (possibly none, at end of stream)
ReadDone(t) ==
    /\ pc[t] = "reading"
    /\ transport = "any"
    /\ \E response \in Replies(CommandOf(t)) : AfterRead(t, response)
    /\ UNCHANGED <<errorCount, transport, calls, request, writer>>

\* asyncio.sleep(1) is over: the next attempt starts
SleepDone(t) ==
    /\ pc[t] = "sleeping"
    /\ LoopTop(t, attempt[t] + 1, delays[t], connected)
    /\ UNCHANGED <<errorCount, lastResponseTime, transport, calls, request, writer>>

\* the user task calls disconnect(): without a writer it only clears the flag;
\* with one it closes the writer and awaits wait_closed()
Disconnect ==
    /\ pc["user"] = "idle"
    /\ request' = [NoRequest EXCEPT !.op = "disconnect",
                                    !.found = <<connected, errorCount, lastResponseTime>>]
    /\ IF writer = "none"
       THEN /\ connected' = FALSE
            /\ last' = Result("disconnected", 0, 0, <<>>, "")
            /\ UNCHANGED <<pc, writer>>
       ELSE /\ writer' = "closed"
            /\ pc' = [pc EXCEPT !["user"] = "closing"]
            /\ UNCHANGED <<connected, last>>
    /\ UNCHANGED <<errorCount, lastResponseTime, transport, attempt, delays, expect,
                   calls, hcPhase, health, queries>>

\* wait_closed() returns, and the flag is cleared, or it raises the error the
\* connection was lost with, and disconnect() is left through the exception
CloseDone ==
    /\ pc["user"] = "closing"
    /\ pc' = [pc EXCEPT !["user"] = "idle"]
    /\ \E ok \in BOOLEAN :
          /\ ~ok => transport = "any"
          /\ IF ok
             THEN /\ connected' = FALSE
                  /\ last' = Result("disconnected", 0, 0, <<>>, "")
             ELSE /\ connected' = connected
                  /\ last' = Result("raised", 0, 0, <<>>, "")
    /\ UNCHANGED <<errorCount, lastResponseTime, transport, attempt, delays, expect,
                   calls, hcPhase, health, request, queries, writer>>

-----------------------------------------------------------------------------
(* Validated setters: set_volume and set_video_wall_mode check their        *)
(* arguments, return a failure without awaiting anything when a check       *)
(* fails, and otherwise hand a command to send_command.                     *)

\* a set_volume that refuses the top of the range
VolumeBelowHundred(volume) == 0 <= volume /\ volume < 100

\* set_volume: 0 <= volume <= 100
VolumeInRange(volume) == 0 <= volume /\ volume <= 100

\* set_video_wall_mode: 1 <= h_monitors <= 15 and 1 <= v_monitors <= 15
MonitorCountInRange(h_monitors, v_monitors) ==
    /\ 1 <= h_monitors /\ h_monitors <= 15
    /\ 1 <= v_monitors /\ v_monitors <= 15

\* set_video_wall_mode: 1 <= h_position <= h_monitors and 1 <= v_position <= v_monitors
PositionInGrid(h_monitors, v_monitors, h_position, v_position) ==
    /\ 1 <= h_position /\ h_position <= h_monitors
    /\ 1 <= v_position /\ v_position <= v_monitors

\* argument values tried: both sides of each end of the ranges
Volumes == {-1, 0, 100, 101}

MonitorCounts == {0, 1, 15, 16}

Positions == {0, 1, 15, 16}

\* the setter returns its validation failure: nothing is awaited
Refuse(op, args, c, error) ==
    /\ request' = Request(op, args, c, <<>>, error)
    /\ last' = Result("invalid", 0, 0, <<>>, "")
    /\ UNCHANGED <<pc, attempt, delays, expect>>

\* the setter calls send_command(c, data) with expect_response = True
Forward(op, args, c, data) ==
    /\ request' = Request(op, args, c, data, "")
    /\ expect' = [expect EXCEPT !["user"] = TRUE]
    /\ SetTask("user", IF connected THEN "draining" ELSE "connecting", 0, 0)
    /\ last' = last

\* the user task calls set_volume(volume)
SetVolume ==
    /\ pc["user"] = "idle"
    /\ calls["user"] < MaxSetterCalls
    /\ calls' = [calls EXCEPT !["user"] = @ + 1]
    /\ \E volume \in Volumes :
          IF ~VolumeInRange(volume)
          THEN Refuse("set_volume", <<volume>>, VOLUME, "Volume must be between 0-100")
          ELSE Forward("set_volume", <<volume>>, VOLUME, <<volume>>)
    /\ UNCHANGED <<connected, errorCount, lastResponseTime, transport, hcPhase,
                   health, queries, writer>>

\* the user task calls set_video_wall_mode(enabled, h_monitors, v_monitors,
\* h_position, v_position)
SetVideoWallMode ==
    /\ pc["user"] = "idle"
    /\ calls["user"] < MaxSetterCalls
    /\ calls' = [calls EXCEPT !["user"] = @ + 1]
    /\ \E enabled \in BOOLEAN, h \in MonitorCounts, v \in MonitorCounts,
          hp \in Positions, vp \in Positions :
          LET args == <<enabled, h, v, hp, vp>>
              wall_mode == IF enabled THEN 1 ELSE 0
          IN IF ~MonitorCountInRange(h, v)
             THEN Refuse("set_video_wall_mode", args, VIDEO_WALL_MODE,
                         "Monitor count must be 1-15")
             ELSE IF ~PositionInGrid(h, v, hp, vp)
             THEN Refuse("set_video_wall_mode", args, VIDEO_WALL_MODE,
                         "Position must be within monitor grid")
             ELSE Forward("set_video_wall_mode", args, VIDEO_WALL_MODE,
                          <<wall_mode, h, v, hp, vp>>)
    /\ UNCHANGED <<connected, errorCount, lastResponseTime, transport, hcPhase,
                   health, queries, writer>>

-----------------------------------------------------------------------------
(* Alert store: MonitoringDashboard._add_alert.  The function does not     *)
(* await, so a call is one action and reads one time.  A message is the    *)
(* triple <<text, display id, value>> its f-string is built from.          *)

Levels == {"warning", "error", "critical"}

Alert(level, message, t) == [level |-> level, message |-> message, timestamp |-> t]

\* Python's s[-n:] for 0 < n
LastN(s, n) == IF Len(s) <= n THEN s ELSE SubSeq(s, Len(s) - n + 1, Len(s))

\* existing_alerts: stored alerts of the same message newer than the cutoff
ExistingAlerts(store, message, t) ==
    LET cutoff_time == t - DedupWindow
    IN {i \in 1..Len(store) :
            store[i].timestamp > cutoff_time /\ store[i].message = message}

\* an _add_alert that stores every alert it is given
AddAlertNoDedup(store, level, message, t) ==
    LastN(Append(store, Alert(level, message, t)), AlertCap)

\* an _add_alert that, over the cap, drops the oldest alert that is not critical
AddAlertEvictByLevel(store, level, message, t) ==
    IF ExistingAlerts(store, message, t) # {} THEN store
    ELSE LET appended == Append(store, Alert(level, message, t))
             low == {i \in 1..Len(appended) : appended[i].level # "critical"}
             victim == IF low = {} THEN 1
                       ELSE CHOOSE i \in low : \A j \in low : i <= j
         IN IF Len(appended) > AlertCap
            THEN SubSeq(appended, 1, victim - 1)
                    \o SubSeq(appended, victim + 1, Len(appended))
            ELSE appended

\* _add_alert(level, message) at time t: the store it leaves
AddAlert(store, level, message, t) ==
    IF ExistingAlerts(store, message, t) = {}
    THEN LET appended == Append(store, Alert(level, message, t))
         IN IF Len(appended) > AlertCap THEN LastN(appended, AlertCap) ELSE appended
    ELSE store

NoAdd == [called |-> FALSE, level |-> "warning", message |-> <<>>, timestamp |-> 0,
          before |-> <<>>]

\* the history variables after _add_alert(level, message) at time t
Recorded(level, message, t) ==
    /\ lastAdd' = [called |-> TRUE, level |-> level, message |-> message,
                   timestamp |-> t, before |-> alerts]
    /\ accepted' = IF ExistingAlerts(alerts, message, t) = {}
                   THEN Append(accepted, Alert(level, message, t))
                   ELSE accepted

\* messages SpecAlerts adds
AlertMessages == {<<"not connected", 1, 0>>, <<"not responding", 2, 0>>}

\* seconds the clock of SpecAlerts advances by in one step
ClockSteps == {100, 199, 200, 201}

\* a caller adds an alert
AddAlertCall ==
    /\ \E level \in Levels, message \in AlertMessages :
          /\ alerts' = AddAlert(alerts, level, message, now)
          /\ Recorded(level, message, now)
    /\ UNCHANGED <<now, pattern>>

\* time passes
Tick ==
    /\ \E d \in ClockSteps :
          /\ now + d <= MaxTime
          /\ now' = now + d
    /\ UNCHANGED <<alerts, accepted, lastAdd, pattern>>

\* the level of the n-th alert of SpecCap: all warnings, all critical, the
\* three levels in turn, or a critical alert first and warnings after it
LevelPatterns == {"warnings", "criticals", "mixed", "criticalFirst"}

LevelAt(p, n) ==
    IF p = "warnings" THEN "warning"
    ELSE IF p = "criticals" THEN "critical"
    ELSE IF p = "mixed"
         THEN (IF n % 3 = 0 THEN "warning" ELSE IF n % 3 = 1 THEN "error" ELSE "critical")
    ELSE IF n = 1 THEN "critical" ELSE "warning"

\* a caller adds an alert whose message was not used before
AddFreshAlert ==
    /\ Len(accepted) < MaxInserts
    /\ LET n == Len(accepted) + 1
           level == LevelAt(pattern, n)
           message == <<"alert", n, 0>>
       IN /\ alerts' = AddAlert(alerts, level, message, now)
          /\ Recorded(level, message, now)
    /\ UNCHANGED <<now, pattern>>

\* a caller adds the latest alert once more
AddRepeatedAlert ==
    /\ accepted # <<>>
    /\ LET a == accepted[Len(accepted)]
       IN /\ alerts' = AddAlert(alerts, a.level, a.message, now)
          /\ Recorded(a.level, a.message, now)
    /\ UNCHANGED <<now, pattern>>

-----------------------------------------------------------------------------
(* Monitoring loop: start_monitoring, stop_monitoring and one cycle's      *)
(* gather over the fleet.  Each display's _check_display_health is a task  *)
(* of its own; here the send_command calls inside health_check are summed  *)
(* up by what they leave in health_data and in the adapter.  Times are     *)
(* seconds; 0 stands for None (no response yet, no temperature).           *)

Displays == 1..NumDisplays

\* temperatures a display reports
Temperatures == {75}

NewAdapter == [connected |-> FALSE, error_count |-> 0, last_response_time |-> 0]

\* health_data as health_check sets it up for display d
HealthData(d) ==
    [display_id |-> d, connected |-> FALSE, responsive |-> FALSE, temperature |-> 0,
     error_count |-> adapters[d].error_count,
     last_response |-> adapters[d].last_response_time,
     timestamp |-> 0, error |-> FALSE]

\* the record _check_display_health builds when health_check raised: it has no
\* temperature, error_count or last_response key
DegradedRecord(d, t) ==
    [display_id |-> d, connected |-> FALSE, responsive |-> FALSE, temperature |-> 0,
     error_count |-> 0, last_response |-> 0, timestamp |-> t, error |-> TRUE]

NoRecord == DegradedRecord(0, 0)

\* a temperature rule that raises the warning as well as the critical alert
AfterTemperatureBoth(store, h, t) ==
    LET high == IF h.temperature >= TemperatureWarning
                THEN AddAlert(store, "warning",
                              <<"temperature high", h.display_id, h.temperature>>, t)
                ELSE store
    IN IF h.temperature >= TemperatureCritical
       THEN AddAlert(high, "critical",
                     <<"temperature critical", h.display_id, h.temperature>>, t)
       ELSE high

\* _process_health_result: the store after the alerts one record raises at time t
AfterTemperature(store, h, t) ==
    IF h.temperature # 0
    THEN IF h.temperature >= TemperatureCritical
         THEN AddAlert(store, "critical",
                       <<"temperature critical", h.display_id, h.temperature>>, t)
         ELSE IF h.temperature >= TemperatureWarning
         THEN AddAlert(store, "warning",
                       <<"temperature high", h.display_id, h.temperature>>, t)
         ELSE store
    ELSE store

AfterConnectivity(store, h, t) ==
    IF ~h.connected
    THEN AddAlert(store, "error", <<"not connected", h.display_id, 0>>, t)
    ELSE IF ~h.responsive
    THEN AddAlert(store, "warning", <<"not responding", h.display_id, 0>>, t)
    ELSE store

AfterResponseTime(store, h, t) ==
    IF h.last_response # 0 /\ t - h.last_response > ResponseTimeout
    THEN AddAlert(store, "warning",
                  <<"last response", h.display_id, t - h.last_response>>, t)
    ELSE store

AfterErrorCount(store, h, t) ==
    IF h.error_count >= ErrorCountWarning
    THEN AddAlert(store, "warning", <<"errors", h.display_id, h.error_count>>, t)
    ELSE store

ProcessHealthResult(store, h, t) ==
    AfterErrorCount(
        AfterResponseTime(
            AfterConnectivity(
                AfterTemperature(store, h, t), h, t), h, t), h, t)

\* `for result in results: self._process_health_result(result)`
RECURSIVE ProcessAll(_, _, _)
ProcessAll(store, recs, t) ==
    IF recs = <<>> THEN store
    ELSE ProcessAll(ProcessHealthResult(store, Head(recs), t), Tail(recs), t)

\* the condition on which the awaited gather hands back its results
AllChecksDone == \A d \in Displays : chk[d] = "done"

\* a gather that hands back as soon as one check is over
SomeCheckDone == \E d \in Displays : chk[d] = "done"

GatherReady == AllChecksDone

\* _perform_health_checks up to its await: one task per adapter
LaunchCycle ==
    /\ loopPc' = "gather"
    /\ chk' = [d \in Displays |-> "pending"]
    /\ results' = [d \in Displays |-> NoRecord]
    /\ outcome' = [d \in Displays |-> "none"]

\* main(): asyncio.create_task(monitor.start_monitoring())
CreateTask ==
    /\ loopPc = "none"
    /\ loopPc' = "scheduled"
    /\ UNCHANGED <<monitoringActive, adapters, chk, results, cycleRecords, cycles,
                   outcome, stopAt, alerts, now>>

\* start_monitoring runs its first step: the flag is set and the first cycle begins
StartMonitoring ==
    /\ loopPc = "scheduled"
    /\ monitoringActive' = TRUE
    /\ LaunchCycle
    /\ UNCHANGED <<adapters, cycleRecords, cycles, stopAt, alerts, now>>

\* a stop_monitoring that also ends the loop where it is
StopAndCancel ==
    /\ monitoringActive' = FALSE
    /\ stopAt' = IF monitoringActive \/ loopPc = "scheduled" THEN loopPc ELSE stopAt
    /\ loopPc' = IF loopPc \in {"gather", "sleeping"} THEN "exited" ELSE loopPc
    /\ UNCHANGED <<adapters, chk, results, cycleRecords, cycles, outcome, alerts, now>>

\* stop_monitoring()
StopMonitoring ==
    /\ monitoringActive' = FALSE
    /\ stopAt' = IF monitoringActive \/ loopPc = "scheduled" THEN loopPc ELSE stopAt
    /\ UNCHANGED <<loopPc, adapters, chk, results, cycleRecords, cycles, outcome,
                   alerts, now>>

\* the task of display d starts health_check: health_data is set up, and
\* connect() is awaited when the adapter is not connected
CheckStart(d) ==
    /\ loopPc = "gather"
    /\ chk[d] = "pending"
    /\ results' = [results EXCEPT ![d] =
                      [HealthData(d) EXCEPT !.connected = adapters[d].connected]]
    /\ chk' = [chk EXCEPT ![d] = IF adapters[d].connected THEN "probing"
                                 ELSE "connecting"]
    /\ UNCHANGED <<monitoringActive, loopPc, adapters, cycleRecords, cycles, outcome,
                   stopAt, alerts, now>>

\* the record a finished health_check returns through _check_display_health
Finished(d, h, how) ==
    /\ results' = [results EXCEPT ![d] = [h EXCEPT !.timestamp = now]]
    /\ chk' = [chk EXCEPT ![d] = "done"]
    /\ outcome' = [outcome EXCEPT ![d] = how]

\* connect() of display d fails: health_check returns with connected False
CheckUnreachable(d) ==
    /\ chk[d] = "connecting"
    /\ adapters' = [adapters EXCEPT ![d].connected = FALSE]
    /\ Finished(d, results[d], "unreachable")
    /\ UNCHANGED <<monitoringActive, loopPc, cycleRecords, cycles, stopAt, alerts, now>>

\* connect() of display d succeeds: the temperature probe starts
CheckConnected(d) ==
    /\ chk[d] = "connecting"
    /\ adapters' = [adapters EXCEPT ![d].connected = TRUE, ![d].error_count = 0]
    /\ results' = [results EXCEPT ![d].connected = TRUE]
    /\ chk' = [chk EXCEPT ![d] = "probing"]
    /\ UNCHANGED <<monitoringActive, loopPc, cycleRecords, cycles, outcome, stopAt,
                   alerts, now>>

\* the probe of display d is answered with a temperature
CheckHealthy(d) ==
    /\ chk[d] = "probing"
    /\ \E temp \in Temperatures :
          Finished(d, [results[d] EXCEPT !.responsive = TRUE, !.temperature = temp],
                   "healthy")
    /\ adapters' = [adapters EXCEPT ![d].last_response_time = now]
    /\ UNCHANGED <<monitoringActive, loopPc, cycleRecords, cycles, stopAt, alerts, now>>

\* the probe of display d fails after its retries, each read timing out (which
\* marks the adapter not connected and leaves error_count as it is)
CheckSilent(d) ==
    /\ chk[d] = "probing"
    /\ adapters' = [adapters EXCEPT ![d].connected = FALSE]
    /\ Finished(d, results[d], "silent")
    /\ UNCHANGED <<monitoringActive, loopPc, cycleRecords, cycles, stopAt, alerts, now>>

\* health_check of display d raises: _check_display_health returns its own record
CheckRaises(d) ==
    /\ chk[d] \in {"connecting", "probing"}
    /\ Finished(d, DegradedRecord(d, now), "raised")
    /\ UNCHANGED <<monitoringActive, loopPc, adapters, cycleRecords, cycles, stopAt,
                   alerts, now>>

\* gather returns: every result is a dict and is processed, then the loop sleeps
GatherDone ==
    /\ loopPc = "gather"
    /\ GatherReady
    /\ LET recs == [i \in 1..NumDisplays |-> results[i]]
       IN /\ cycleRecords' = recs
          /\ alerts' = ProcessAll(alerts, recs, now)
    /\ loopPc' = "sleeping"
    /\ cycles' = cycles + 1
    /\ UNCHANGED <<monitoringActive, adapters, chk, results, outcome, stopAt, now>>

\* the sleep is over and the flag is set: the next cycle begins
WakeAndRepeat ==
    /\ loopPc = "sleeping"
    /\ monitoringActive
    /\ cycles < MaxCycles
    /\ now' = now + MonitoringInterval
    /\ LaunchCycle
    /\ UNCHANGED <<monitoringActive, adapters, cycleRecords, cycles, stopAt, alerts>>

\* the sleep is over and the flag is set, past the cycles that are counted:
\* the next cycle begins all the same, counted and timed as the one before
WakeAndRepeatUncounted ==
    /\ loopPc = "sleeping"
    /\ monitoringActive
    /\ cycles = MaxCycles
    /\ cycles' = cycles - 1
    /\ LaunchCycle
    /\ UNCHANGED <<monitoringActive, adapters, cycleRecords, stopAt, alerts, now>>

\* the sleep is over and the flag is cleared: start_monitoring returns
WakeAndExit ==
    /\ loopPc = "sleeping"
    /\ ~monitoringActive
    /\ now' = now + MonitoringInterval
    /\ loopPc' = "exited"
    /\ UNCHANGED <<monitoringActive, adapters, chk, results, cycleRecords, cycles,
                   outcome, stopAt, alerts>>

-----------------------------------------------------------------------------
(* One health record handed to _process_health_result                      *)

\* the clock when the record is processed
RulesTime == 100 * ResponseTimeout

\* temperatures around both thresholds; 0 stands for None
RuleTemperatures ==
    {0, 1, TemperatureWarning - 1, TemperatureWarning, TemperatureCritical - 1,
     TemperatureCritical, TemperatureCritical + 1}

\* last_response values around the timeout; 0 stands for None
RuleLastResponses ==
    {0, RulesTime, RulesTime - (ResponseTimeout - 1), RulesTime - ResponseTimeout,
     RulesTime - (ResponseTimeout + 1)}

RuleErrorCounts == {0, ErrorCountWarning - 1, ErrorCountWarning, ErrorCountWarning + 1}

\* the records health_check can return for display d: unreachable, connected
\* and silent, or responsive with or without a temperature
HealthRecords(d) ==
    {h \in [display_id : {d}, connected : BOOLEAN, responsive : BOOLEAN,
            temperature : RuleTemperatures, error_count : RuleErrorCounts,
            last_response : RuleLastResponses, timestamp : {RulesTime},
            error : {FALSE}] :
        /\ h.responsive => h.connected
        /\ h.temperature # 0 => h.responsive}

\* `self._process_health_result(result)` for the one record gathered
ProcessRecord ==
    /\ cycleRecords = <<>>
    /\ \E d \in Displays :
          /\ results[d].display_id = d
          /\ cycleRecords' = <<results[d]>>
          /\ alerts' = ProcessHealthResult(alerts, results[d], now)
    /\ UNCHANGED <<monitoringActive, loopPc, adapters, chk, results, cycles, outcome,
                   stopAt, now, accepted, lastAdd, pattern, status>>

-----------------------------------------------------------------------------
(* System status: MonitoringDashboard.get_system_status, a function of the  *)
(* alert store, the adapters and the clock; it does not await.              *)

\* a status that also counts alerts exactly an hour old as recent
RecentAlertsInclusive(store, t) ==
    {i \in 1..Len(store) : t - store[i].timestamp <= RecentWindow}

\* recent_alerts: the alerts a with time.time() - a['timestamp'] < 3600
RecentAlerts(store, t) ==
    {i \in 1..Len(store) : t - store[i].timestamp < RecentWindow}

\* the dict get_system_status returns; finished is the number of monitoring
\* cycles over when it was called
SystemStatus(store, ads, t, finished) ==
    LET recent_alerts == RecentAlerts(store, t)
        critical == {i \in recent_alerts : store[i].level = "critical"}
        warning == {i \in recent_alerts : store[i].level = "warning"}
    IN [called |-> TRUE,
        after_cycles |-> finished,
        total_displays |-> Cardinality(DOMAIN ads),
        connected_displays |-> Cardinality({d \in DOMAIN ads : ads[d].connected}),
        responsive_displays |-> 0,
        recent_alerts |-> Cardinality(recent_alerts),
        critical_alerts |-> Cardinality(critical),
        warning_alerts |-> Cardinality(warning),
        system_health |-> IF Cardinality(recent_alerts) = 0 THEN "healthy"
                          ELSE IF Cardinality(critical) = 0 THEN "warning"
                          ELSE "critical"]

NoStatus ==
    [called |-> FALSE, after_cycles |-> 0, total_displays |-> 0,
     connected_displays |-> 0, responsive_displays |-> 0, recent_alerts |-> 0,
     critical_alerts |-> 0, warning_alerts |-> 0, system_health |-> "none"]

\* some task calls get_system_status()
GetSystemStatus ==
    /\ status' = SystemStatus(alerts, adapters, now, cycles)
    /\ UNCHANGED <<alertVars, monitorVars>>

\* ages of the alerts in the stores SpecStatus starts from, in seconds
AlertAges == {0, RecentWindow - 1, RecentWindow, RecentWindow + 1}

\* the clock when SpecStatus asks for the status
StatusTime == RecentWindow + 400

\* alert stores of n alerts: any levels, distinct messages, appended in time order
StoresOf(n) ==
    {store \in [1..n -> [level : Levels, message : {<<"alert", 0, 0>>},
                         timestamp : {StatusTime - a : a \in AlertAges}]] :
        \A i \in 1..(n - 1) : store[i].timestamp <= store[i + 1].timestamp}

NumberMessages(store) ==
    [i \in 1..Len(store) |-> [store[i] EXCEPT !.message = <<"alert", i, 0>>]]

-----------------------------------------------------------------------------
(* Video wall layouts: VideoWallLayoutManager.  The constructor computes    *)
(* the layouts without awaiting; configure_video_wall awaits one            *)
(* set_video_wall_mode per display that has an adapter.  A layout name      *)
(* "hxv" is the pair <<h, v>>.                                              *)

WallIds == 1..MaxWallDisplays

\* the orders in which a dict of n displays can list its keys
DisplayOrders(n) ==
    {ids \in [1..n -> WallIds] : \A i, j \in 1..n : i # j => ids[i] # ids[j]}

\* a mapping that fills the grid column by column
ColumnMajorMapping(ids, h_count, v_count) ==
    LET n == Min(Len(ids), h_count * v_count)
    IN [id \in {ids[k] : k \in 1..n} |->
            LET i == (CHOOSE k \in 1..n : ids[k] = id) - 1
            IN [horizontal_position |-> (i \div v_count) + 1,
                vertical_position |-> (i % v_count) + 1]]

\* _create_display_mapping over display_ids[:h_count * v_count]
CreateDisplayMapping(ids, h_count, v_count) ==
    LET n == Min(Len(ids), h_count * v_count)
    IN [id \in {ids[k] : k \in 1..n} |->
            LET i == (CHOOSE k \in 1..n : ids[k] = id) - 1
            IN [horizontal_position |-> (i % h_count) + 1,
                vertical_position |-> (i \div h_count) + 1]]

\* _calculate_layouts: one layout for every h in 1..display_count dividing it
CalculateLayouts(ids) ==
    LET display_count == Len(ids)
        hs == {h \in 1..display_count : display_count % h = 0}
    IN [name \in {<<h, display_count \div h>> : h \in hs} |->
            [horizontal |-> name[1],
             vertical |-> name[2],
             total_displays |-> display_count,
             display_mapping |-> CreateDisplayMapping(ids, name[1], name[2])]]

\* the ids of a mapping in its insertion order, which is the order of ids
MappingOrder(ids, mapping) == SelectSeq(ids, LAMBDA id : id \in DOMAIN mapping)

WallResult(ok, error) == [success |-> ok, error |-> error]

NoWallReturn == [success |-> FALSE, error |-> "none", results |-> <<>>]

\* what the awaited set_video_wall_mode(True, h, v, hp, vp) can return
WallModeResults(h, v, hp, vp) ==
    IF ~MonitorCountInRange(h, v)
    THEN {WallResult(FALSE, "Monitor count must be 1-15")}
    ELSE IF ~PositionInGrid(h, v, hp, vp)
    THEN {WallResult(FALSE, "Position must be within monitor grid")}
    ELSE {WallResult(TRUE, ""), WallResult(FALSE, "Failed after 3 attempts")}

\* a configure_video_wall that stops at the first display without an adapter
RunLoopAborting(todo, res, order, with) ==
    IF todo = <<>> \/ Head(todo) \in with
    THEN [todo |-> todo, results |-> res, order |-> order]
    ELSE [todo |-> <<>>,
          results |-> (Head(todo) :> WallResult(FALSE, "Adapter not found")) @@ res,
          order |-> Append(order, Head(todo))]

\* the loop of configure_video_wall from the display at the head of todo up to
\* its next await: displays without an adapter get 'Adapter not found' on the way
RECURSIVE RunLoop(_, _, _, _)
RunLoop(todo, res, order, with) ==
    IF todo = <<>> \/ Head(todo) \in with
    THEN [todo |-> todo, results |-> res, order |-> order]
    ELSE RunLoop(Tail(todo),
                 (Head(todo) :> WallResult(FALSE, "Adapter not found")) @@ res,
                 Append(order, Head(todo)), with)

\* all(r.get('success', False) for r in results.values())
AllSucceeded(res) == \A id \in DOMAIN res : res[id].success

\* the loop ran to the state r: it is suspended in an await, or it returns
Continue(r) ==
    /\ wallTodo' = r.todo
    /\ wallResults' = r.results
    /\ wallOrder' = r.order
    /\ IF r.todo = <<>>
       THEN /\ wallPc' = "returned"
            /\ wallReturn' = [success |-> AllSucceeded(r.results), error |-> "",
                              results |-> r.results]
       ELSE /\ wallPc' = "configuring"
            /\ wallReturn' = wallReturn

\* VideoWallLayoutManager(displays)
NewLayoutManager ==
    /\ wallPc = "new"
    /\ layouts' = CalculateLayouts(displays)
    /\ wallPc' = "planned"
    /\ UNCHANGED <<displays, wallLayout, wallAdapters, wallTodo, wallResults,
                   wallOrder, wallReturn>>

\* configure_video_wall(layout_name, adapters) up to its first await or its return
ConfigureVideoWallWith(name, with) ==
    /\ wallPc = "planned"
    /\ wallLayout' = name
    /\ wallAdapters' = with
    /\ IF name \notin DOMAIN layouts
       THEN /\ wallPc' = "returned"
            /\ wallReturn' = [success |-> FALSE, error |-> "Layout not found",
                              results |-> <<>>]
            /\ UNCHANGED <<wallTodo, wallResults, wallOrder>>
       ELSE Continue(RunLoop(MappingOrder(displays, layouts[name].display_mapping),
                             <<>>, <<>>, with))
    /\ UNCHANGED <<displays, layouts>>

\* configure_video_wall with any layout name and any set of adapters
ConfigureVideoWall ==
    \E name \in (1..MaxWallDisplays) \X (1..MaxWallDisplays),
       with \in SUBSET WallIds : ConfigureVideoWallWith(name, with)

\* configure_video_wall with a layout the manager enumerated and an adapter
\* for every display
ConfigurePlannedLayout ==
    \E name \in DOMAIN layouts :
       ConfigureVideoWallWith(name, {displays[k] : k \in 1..Len(displays)})

\* the awaited set_video_wall_mode returns: its result is stored and the loop
\* goes on
WallModeDone ==
    /\ wallPc = "configuring"
    /\ LET id == Head(wallTodo)
           layout == layouts[wallLayout]
           position == layout.display_mapping[id]
       IN \E result \in WallModeResults(layout.horizontal, layout.vertical,
                                        position.horizontal_position,
                                        position.vertical_position) :
             Continue(RunLoop(Tail(wallTodo), (id :> result) @@ wallResults,
                              Append(wallOrder, id), wallAdapters))
    /\ UNCHANGED <<displays, layouts, wallLayout, wallAdapters>>

-----------------------------------------------------------------------------
(* Specifications                                                          *)

CodecIdle ==
    /\ cmd = POWER
    /\ devId = 1
    /\ payload = <<>>
    /\ expectedId = 1
    /\ frame = <<>>
    /\ decoded = NoResult
    /\ cstage = "input"

SessionIdle ==
    /\ connected = FALSE
    /\ errorCount = 0
    /\ lastResponseTime = "None"
    /\ transport = "any"
    /\ pc = [t \in Tasks |-> "idle"]
    /\ attempt = [t \in Tasks |-> 0]
    /\ delays = [t \in Tasks |-> 0]
    /\ expect = [t \in Tasks |-> TRUE]
    /\ calls = [t \in Tasks |-> 0]
    /\ last = NoCall
    /\ hcPhase = "none"
    /\ health = NoHealth
    /\ request = NoRequest
    /\ queries = NoQueries
    /\ writer = "none"

AlertsIdle ==
    /\ alerts = <<>>
    /\ now = 0
    /\ accepted = <<>>
    /\ lastAdd = NoAdd
    /\ pattern = "warnings"

MonitorIdle ==
    /\ monitoringActive = FALSE
    /\ loopPc = "none"
    /\ adapters = [d \in Displays |-> NewAdapter]
    /\ chk = [d \in Displays |-> "idle"]
    /\ results = [d \in Displays |-> NoRecord]
    /\ cycleRecords = <<>>
    /\ cycles = 0
    /\ outcome = [d \in Displays |-> "none"]
    /\ stopAt = "never"
    /\ status = NoStatus

WallIdle ==
    /\ displays = <<>>
    /\ layouts = <<>>
    /\ wallPc = "new"
    /\ wallLayout = <<0, 0>>
    /\ wallAdapters = {}
    /\ wallTodo = <<>>
    /\ wallResults = <<>>
    /\ wallOrder = <<>>
    /\ wallReturn = NoWallReturn

InitCodec ==
    /\ cmd \in Commands
    /\ devId \in DeviceIds
    /\ expectedId \in DeviceIds
    /\ payload \in Payloads
    /\ frame = <<>>
    /\ decoded = NoResult
    /\ cstage = "input"
    /\ SessionIdle
    /\ AlertsIdle
    /\ MonitorIdle
    /\ WallIdle

NextCodec ==
    \/ Encode /\ UNCHANGED <<sessionVars, alertVars, monitorVars, wallVars, status>>
    \/ TamperChecksum /\ UNCHANGED <<sessionVars, alertVars, monitorVars, wallVars, status>>
    \/ Truncate /\ UNCHANGED <<sessionVars, alertVars, monitorVars, wallVars, status>>
    \/ Decode /\ UNCHANGED <<sessionVars, alertVars, monitorVars, wallVars, status>>

SpecCodec == InitCodec /\ [][NextCodec]_vars

\* a new adapter (__init__), over a network that behaves in any way or always
\* fails in one way
Init ==
    /\ connected = FALSE
    /\ errorCount = 0
    /\ lastResponseTime = "None"
    /\ transport \in {"any", "connectFails", "writeRaises", "readTimesOut"}
    /\ pc = [t \in Tasks |-> "idle"]
    /\ attempt = [t \in Tasks |-> 0]
    /\ delays = [t \in Tasks |-> 0]
    /\ expect = [t \in Tasks |-> TRUE]
    /\ calls = [t \in Tasks |-> 0]
    /\ last = NoCall
    /\ hcPhase = "none"
    /\ health = NoHealth
    /\ request = NoRequest
    /\ queries = NoQueries
    /\ writer = "none"
    /\ CodecIdle
    /\ AlertsIdle
    /\ MonitorIdle
    /\ WallIdle

Next ==
    \/ SendCommand /\ UNCHANGED <<codecVars, alertVars, monitorVars, wallVars, status>>
    \/ HealthCheck /\ UNCHANGED <<codecVars, alertVars, monitorVars, wallVars, status>>
    \/ HealthCheckConnected /\ UNCHANGED <<codecVars, alertVars, monitorVars, wallVars, status>>
    \/ \E t \in Tasks : ConnectDone(t) /\ UNCHANGED <<codecVars, alertVars, monitorVars, wallVars, status>>
    \/ \E t \in Tasks : DrainDone(t) /\ UNCHANGED <<codecVars, alertVars, monitorVars, wallVars, status>>
    \/ \E t \in Tasks : ReadTimeout(t) /\ UNCHANGED <<codecVars, alertVars, monitorVars, wallVars, status>>
    \/ \E t \in Tasks : ReadRaises(t) /\ UNCHANGED <<codecVars, alertVars, monitorVars, wallVars, status>>
    \/ \E t \in Tasks : ReadDone(t) /\ UNCHANGED <<codecVars, alertVars, monitorVars, wallVars, status>>
    \/ \E t \in Tasks : SleepDone(t) /\ UNCHANGED <<codecVars, alertVars, monitorVars, wallVars, status>>

Spec == Init /\ [][Next]_vars

\* an empty store, and a clock
\* a new adapter whose only caller uses the validated setters
InitSetters == Init

NextSetters ==
    \/ SetVolume /\ UNCHANGED <<codecVars, alertVars, monitorVars, wallVars, status>>
    \/ SetVideoWallMode /\ UNCHANGED <<codecVars, alertVars, monitorVars, wallVars, status>>
    \/ ConnectDone("user") /\ UNCHANGED <<codecVars, alertVars, monitorVars, wallVars, status>>
    \/ DrainDone("user") /\ UNCHANGED <<codecVars, alertVars, monitorVars, wallVars, status>>
    \/ ReadTimeout("user") /\ UNCHANGED <<codecVars, alertVars, monitorVars, wallVars, status>>
    \/ ReadRaises("user") /\ UNCHANGED <<codecVars, alertVars, monitorVars, wallVars, status>>
    \/ ReadDone("user") /\ UNCHANGED <<codecVars, alertVars, monitorVars, wallVars, status>>
    \/ SleepDone("user") /\ UNCHANGED <<codecVars, alertVars, monitorVars, wallVars, status>>

SpecSetters == InitSetters /\ [][NextSetters]_vars

\* the display configurations handed to the layout manager: any number of
\* displays up to MaxWallDisplays, their ids in any order
InitWall ==
    /\ displays \in UNION {DisplayOrders(n) : n \in 0..MaxWallDisplays}
    /\ layouts = <<>>
    /\ wallPc = "new"
    /\ wallLayout = <<0, 0>>
    /\ wallAdapters = {}
    /\ wallTodo = <<>>
    /\ wallResults = <<>>
    /\ wallOrder = <<>>
    /\ wallReturn = NoWallReturn
    /\ CodecIdle
    /\ SessionIdle
    /\ AlertsIdle
    /\ MonitorIdle

NextWall ==
    \/ NewLayoutManager /\ UNCHANGED <<codecVars, sessionVars, alertVars, monitorVars, status>>
    \/ ConfigureVideoWall /\ UNCHANGED <<codecVars, sessionVars, alertVars, monitorVars, status>>
    \/ WallModeDone /\ UNCHANGED <<codecVars, sessionVars, alertVars, monitorVars, status>>

SpecWall == InitWall /\ [][NextWall]_vars

\* walls of up to MaxLargeWall displays, numbered in order, each with an
\* adapter, configured with the layouts their manager enumerated
InitLargeWall ==
    /\ \E n \in 1..MaxLargeWall : displays = [k \in 1..n |-> k]
    /\ layouts = <<>>
    /\ wallPc = "new"
    /\ wallLayout = <<0, 0>>
    /\ wallAdapters = {}
    /\ wallTodo = <<>>
    /\ wallResults = <<>>
    /\ wallOrder = <<>>
    /\ wallReturn = NoWallReturn
    /\ CodecIdle
    /\ SessionIdle
    /\ AlertsIdle
    /\ MonitorIdle

NextLargeWall ==
    \/ NewLayoutManager /\ UNCHANGED <<codecVars, sessionVars, alertVars, monitorVars, status>>
    \/ ConfigurePlannedLayout
          /\ UNCHANGED <<codecVars, sessionVars, alertVars, monitorVars, status>>
    \/ WallModeDone /\ UNCHANGED <<codecVars, sessionVars, alertVars, monitorVars, status>>

SpecLargeWall == InitLargeWall /\ [][NextLargeWall]_vars

\* a dashboard whose store holds up to MaxStatusAlerts alerts of any age
InitStatus ==
    /\ \E n \in 0..MaxStatusAlerts : \E store \in StoresOf(n) :
          alerts = NumberMessages(store)
    /\ now = StatusTime
    /\ accepted = <<>>
    /\ lastAdd = NoAdd
    /\ pattern = "warnings"
    /\ CodecIdle
    /\ SessionIdle
    /\ MonitorIdle
    /\ WallIdle

NextStatus ==
    GetSystemStatus /\ UNCHANGED <<codecVars, sessionVars, wallVars>>

SpecStatus == InitStatus /\ [][NextStatus]_vars

\* a dashboard with an empty store that gathered one record, of any display
InitRules ==
    /\ monitoringActive = TRUE
    /\ loopPc = "gather"
    /\ adapters = [d \in Displays |-> NewAdapter]
    /\ chk = [d \in Displays |-> "idle"]
    /\ \E d \in Displays :
          \E h \in HealthRecords(d) \cup {DegradedRecord(d, RulesTime)} :
             results = [e \in Displays |-> IF e = d THEN h ELSE NoRecord]
    /\ cycleRecords = <<>>
    /\ cycles = 0
    /\ outcome = [d \in Displays |-> "none"]
    /\ stopAt = "never"
    /\ status = NoStatus
    /\ alerts = <<>>
    /\ now = RulesTime
    /\ accepted = <<>>
    /\ lastAdd = NoAdd
    /\ pattern = "warnings"
    /\ CodecIdle
    /\ SessionIdle
    /\ WallIdle

NextRules ==
    ProcessRecord /\ UNCHANGED <<codecVars, sessionVars, wallVars>>

SpecRules == InitRules /\ [][NextRules]_vars

\* a new adapter whose operations never overlap: send_command, health_check
\* and disconnect each start when no other operation is running
InitSerial == Init

NextSerial ==
    \/ pc["monitor"] = "idle" /\ SendCommand
          /\ UNCHANGED <<codecVars, alertVars, monitorVars, wallVars, status>>
    \/ pc["user"] = "idle" /\ HealthCheck
          /\ UNCHANGED <<codecVars, alertVars, monitorVars, wallVars, status>>
    \/ pc["monitor"] = "idle" /\ Disconnect
          /\ UNCHANGED <<codecVars, alertVars, monitorVars, wallVars, status>>
    \/ CloseDone /\ UNCHANGED <<codecVars, alertVars, monitorVars, wallVars, status>>
    \/ HealthCheckConnected
          /\ UNCHANGED <<codecVars, alertVars, monitorVars, wallVars, status>>
    \/ \E t \in Tasks : ConnectDone(t)
          /\ UNCHANGED <<codecVars, alertVars, monitorVars, wallVars, status>>
    \/ \E t \in Tasks : DrainDone(t)
          /\ UNCHANGED <<codecVars, alertVars, monitorVars, wallVars, status>>
    \/ \E t \in Tasks : ReadTimeout(t)
          /\ UNCHANGED <<codecVars, alertVars, monitorVars, wallVars, status>>
    \/ \E t \in Tasks : ReadRaises(t)
          /\ UNCHANGED <<codecVars, alertVars, monitorVars, wallVars, status>>
    \/ \E t \in Tasks : ReadDone(t)
          /\ UNCHANGED <<codecVars, alertVars, monitorVars, wallVars, status>>
    \/ \E t \in Tasks : SleepDone(t)
          /\ UNCHANGED <<codecVars, alertVars, monitorVars, wallVars, status>>

SpecSerial == InitSerial /\ [][NextSerial]_vars

InitAlerts ==
    /\ AlertsIdle
    /\ CodecIdle
    /\ SessionIdle
    /\ MonitorIdle
    /\ WallIdle

NextAlerts ==
    \/ AddAlertCall /\ UNCHANGED <<codecVars, sessionVars, monitorVars, wallVars, status>>
    \/ Tick /\ UNCHANGED <<codecVars, sessionVars, monitorVars, wallVars, status>>

SpecAlerts == InitAlerts /\ [][NextAlerts]_vars

\* an empty store, and the levels of the alerts to come
InitCap ==
    /\ alerts = <<>>
    /\ now = 0
    /\ accepted = <<>>
    /\ lastAdd = NoAdd
    /\ pattern \in LevelPatterns
    /\ CodecIdle
    /\ SessionIdle
    /\ MonitorIdle
    /\ WallIdle

NextCap ==
    \/ AddFreshAlert /\ UNCHANGED <<codecVars, sessionVars, monitorVars, wallVars, status>>
    \/ AddRepeatedAlert /\ UNCHANGED <<codecVars, sessionVars, monitorVars, wallVars, status>>

SpecCap == InitCap /\ [][NextCap]_vars

\* a dashboard over new adapters, its loop not yet started
InitMonitor ==
    /\ MonitorIdle
    /\ WallIdle
    /\ alerts = <<>>
    /\ now = 1
    /\ accepted = <<>>
    /\ lastAdd = NoAdd
    /\ pattern = "warnings"
    /\ CodecIdle
    /\ SessionIdle

MonitorRest == <<codecVars, sessionVars, accepted, lastAdd, pattern, wallVars, status>>

NextMonitor ==
    \/ CreateTask /\ UNCHANGED MonitorRest
    \/ StartMonitoring /\ UNCHANGED MonitorRest
    \/ StopMonitoring /\ UNCHANGED MonitorRest
    \/ \E d \in Displays : CheckStart(d) /\ UNCHANGED MonitorRest
    \/ \E d \in Displays : CheckUnreachable(d) /\ UNCHANGED MonitorRest
    \/ \E d \in Displays : CheckConnected(d) /\ UNCHANGED MonitorRest
    \/ \E d \in Displays : CheckHealthy(d) /\ UNCHANGED MonitorRest
    \/ \E d \in Displays : CheckSilent(d) /\ UNCHANGED MonitorRest
    \/ \E d \in Displays : CheckRaises(d) /\ UNCHANGED MonitorRest
    \/ GatherDone /\ UNCHANGED MonitorRest
    \/ WakeAndRepeat /\ UNCHANGED MonitorRest
    \/ WakeAndExit /\ UNCHANGED MonitorRest

SpecMonitor == InitMonitor /\ [][NextMonitor]_vars

\* a step of the loop task: its start, a step of a health check, the return of
\* gather, or the end of a sleep
LoopStep ==
    \/ StartMonitoring /\ UNCHANGED MonitorRest
    \/ \E d \in Displays : CheckStart(d) /\ UNCHANGED MonitorRest
    \/ \E d \in Displays : CheckUnreachable(d) /\ UNCHANGED MonitorRest
    \/ \E d \in Displays : CheckConnected(d) /\ UNCHANGED MonitorRest
    \/ \E d \in Displays : CheckHealthy(d) /\ UNCHANGED MonitorRest
    \/ \E d \in Displays : CheckSilent(d) /\ UNCHANGED MonitorRest
    \/ \E d \in Displays : CheckRaises(d) /\ UNCHANGED MonitorRest
    \/ GatherDone /\ UNCHANGED MonitorRest
    \/ WakeAndRepeat /\ UNCHANGED MonitorRest
    \/ WakeAndRepeatUncounted /\ UNCHANGED MonitorRest
    \/ WakeAndExit /\ UNCHANGED MonitorRest

\* the loop with no end to its cycles, and its callers
NextMonitorLive ==
    \/ CreateTask /\ UNCHANGED MonitorRest
    \/ StopMonitoring /\ UNCHANGED MonitorRest
    \/ LoopStep

\* the monitoring loop on an event loop that runs every task that is ready:
\* the scheduled task starts, every health check and every sleep completes
SpecMonitorLive == InitMonitor /\ [][NextMonitorLive]_vars /\ WF_vars(LoopStep)

\* the monitoring loop with a caller that asks for the system status at any time
NextFleetStatus ==
    \/ NextMonitor
    \/ GetSystemStatus /\ UNCHANGED <<codecVars, sessionVars, wallVars>>

SpecFleetStatus == InitMonitor /\ [][NextFleetStatus]_vars

-----------------------------------------------------------------------------
(* Claims about the frame codec (checked under SpecCodec)                  *)

\* C8: decoding the frame that _create_mdc_packet built, with the same display
\* id, succeeds and returns exactly the original command code and payload.
C8_RoundTrip ==
    (cstage = "decoded" /\ expectedId = devId) =>
        /\ decoded.success
        /\ decoded.command = cmd
        /\ decoded.data = payload

\* a round trip of a full-length payload whose byte sum wraps past 255
C8_Witness ==
    /\ cstage = "decoded"
    /\ expectedId = devId
    /\ Len(payload) >= 2
    /\ Header + cmd + devId + Len(payload) + SumBytes(payload) > 255
    /\ decoded.success

\* C9: a built frame ends in (header + command + deviceId + len(payload) +
\* sum(payload)) mod 256, and the same frame with any other value in its
\* checksum byte is refused with "Checksum mismatch".
C9_ChecksumSensitive ==
    /\ cstage = "encoded" =>
          /\ Len(frame) = Len(payload) + 5
          /\ frame[Len(frame)] =
                (170 + cmd + devId + Len(payload) + SumBytes(payload)) % 256
    /\ (cstage = "decodedTampered" /\ expectedId = devId) =>
          /\ ~decoded.success
          /\ decoded.error = "Checksum mismatch"

\* a tampered frame with a payload was parsed by the adapter it was built for
C9_Witness ==
    /\ cstage = "decodedTampered"
    /\ expectedId = devId
    /\ payload # <<>>
    /\ frame[Len(frame)] # Checksum(cmd, devId, payload)
    /\ decoded.error = "Checksum mismatch"

\* C10 (as claimed): an input of at least 4 bytes with a valid header and the
\* expected display id, cut short of its declared payload or of its checksum
\* byte, is refused with "Malformed" and never parsed successfully.
C10_TruncatedIsMalformed ==
    (/\ cstage = "decodedTruncated"
     /\ Len(frame) >= 4
     /\ expectedId = devId) =>
        /\ ~decoded.success
        /\ decoded.error = "Malformed"

\* a frame cut short of its checksum byte that the parser accepts
TruncatedFrameAccepted ==
    /\ cstage = "decodedTruncated"
    /\ Len(frame) >= 4
    /\ decoded.success

\* C11: a well-formed frame built for one display and parsed by the adapter of
\* a different display is refused with "Display ID mismatch": it is never a
\* success and never a checksum error.
C11_DeviceIdIsolation ==
    (cstage = "decoded" /\ expectedId # devId) =>
        /\ ~decoded.success
        /\ decoded.error = "Display ID mismatch"

\* the frame of display 1 with a payload, parsed by the adapter of display 2
C11_Witness ==
    /\ cstage = "decoded"
    /\ devId = 1
    /\ expectedId = 2
    /\ payload # <<>>
    /\ frame = CreateMdcPacket(cmd, devId, payload)
    /\ decoded.error = "Display ID mismatch"

-----------------------------------------------------------------------------
(* Claims about the device session (checked under Spec)                    *)

InFlight(t) == pc[t] \in {"draining", "reading"}

\* C1 (as claimed): at most one send_command of the session is in flight,
\* that is between its frame write and the end of its response read.
C1_MutualExclusion == Cardinality({t \in Tasks : InFlight(t)}) <= 1

\* both tasks wait for a response on the one stream
BothReading == \A t \in Tasks : pc[t] = "reading"

\* the user's send_command has returned over a network that always fails
\* (for the read that always times out, a call that reads a response)
AlwaysFailed ==
    /\ transport # "any"
    /\ last.result # "none"
    /\ transport = "readTimesOut" => expect["user"]

\* C2 (as claimed): over a transport that always fails, in whichever way,
\* send_command returns its failure after exactly 3 attempts and exactly two
\* one-second delays.
C2_RetryBudget ==
    AlwaysFailed =>
        /\ last.result = "failed"
        /\ last.attempts = 3
        /\ last.delays = 2

\* what the code does keep of C2: the failure after three attempts, with two
\* delays only when it is the write that raises
RetryBudgetOfTheCode ==
    AlwaysFailed =>
        /\ last.result = "failed"
        /\ last.attempts = 3
        /\ last.delays = IF transport = "writeRaises" THEN 2 ELSE 0

\* C3 (as claimed): with expect_response, an attempt whose response fails to
\* parse (its error is logged) does not end the call with success.
C3_DecodeFailureRetries ==
    (expect["user"] /\ last.warning # "") => last.result \notin {"ok", "sent"}

\* with expect_response, success without a parsed response: after a response
\* that did not parse, or after an empty read
SuccessWithoutResponse ==
    /\ expect["user"]
    /\ last.result = "sent"

\* the identity fields of health_data, by the step that fills them
IdentityField(p) ==
    IF p = "model" THEN "model"
    ELSE IF p = "serial" THEN "serial_number"
    ELSE "software_version"

ProbeStarted == hcPhase \in QuerySteps \/ queries["temp"] # "none"

\* C18: whatever the model, serial number and software version queries return,
\* the record of health_check has connected as the connect step left it, and
\* responsive and temperature as the temperature probe left them; an identity
\* field whose query failed is unset.
C18_IdentityBestEffort ==
    /\ health.connected <=> ProbeStarted
    /\ queries["temp"] = "none" => ~health.responsive /\ health.temperature = 0
    /\ queries["temp"] # "none" =>
          /\ health.responsive <=> queries["temp"] \in {"ok", "sent"}
          /\ health.temperature = IF queries["temp"] = "ok" THEN ReplyData[1] ELSE 0
    /\ \A p \in {"model", "serial", "version"} :
          queries[p] \in {"none", "failed"} => ~health[IdentityField(p)]
    /\ hcPhase = "done" /\ ProbeStarted => \A p \in QuerySteps : queries[p] # "none"

\* a finished health check: the probe was answered, then every identity query failed
C18_Witness ==
    /\ hcPhase = "done"
    /\ queries["temp"] = "ok"
    /\ \A p \in {"model", "serial", "version"} : queries[p] = "failed"
    /\ health.connected
    /\ health.responsive
    /\ health.temperature = ReplyData[1]
    /\ ~health.model

\* task t's attempt ends in a transport failure: it goes to sleep before a
\* retry, starts the next attempt, or was the last attempt of a failed call
AttemptFailed(t) ==
    /\ pc[t] \in {"connecting", "draining", "reading"}
    /\ \/ pc'[t] = "sleeping"
       \/ attempt'[t] = attempt[t] + 1
       \/ t = "user" /\ pc'[t] = "idle" /\ last'.result = "failed"
       \/ t = "monitor" /\ hcPhase \in QuerySteps /\ queries'[hcPhase] = "failed"

\* C19 (as claimed): every attempt of send_command that ends in a transport
\* failure, a failed connect included, adds one to error_count and leaves the
\* session not connected before the next attempt starts.
C19_FaultCounted ==
    [][\A t \in Tasks :
          AttemptFailed(t) => errorCount' = errorCount + 1 /\ ~connected']_vars

\* a call that failed on connects alone, error_count still 0
FailedConnectsUncounted ==
    /\ transport = "connectFails"
    /\ last.result = "failed"
    /\ last.attempts = 3
    /\ errorCount = 0
    /\ ~connected

\* the connect() awaited by task t returns
ConnectReturns(t) ==
    \/ pc[t] = "connecting" /\ (pc'[t] # "connecting" \/ attempt'[t] # attempt[t])
    \/ pc[t] = "hcConnecting" /\ pc'[t] # "hcConnecting"

\* C20: connect() does not raise.  When it succeeds the session is connected
\* and error_count is 0; when it fails or times out the session is not
\* connected, error_count is what it was, and the caller gets the failure:
\* send_command goes to its next attempt without passing through its exception
\* handler, health_check returns a record that is not connected.
C20_ConnectNeverRaises ==
    [][\A t \in Tasks :
          ConnectReturns(t) =>
             \/ /\ connected'
                /\ errorCount' = 0
                /\ pc'[t] = "draining"
             \/ /\ ~connected'
                /\ errorCount' = errorCount
                /\ pc'[t] # "sleeping"
                /\ IF pc[t] = "hcConnecting"
                   THEN hcPhase' = "done" /\ ~health'.connected
                   ELSE \/ attempt'[t] = attempt[t] + 1
                        \/ t = "user" /\ last'.result = "failed"
                        \/ t = "monitor" /\ queries'[hcPhase] = "failed"]_vars

\* a retry that slept after an exception had raised error_count, then
\* reconnected: the session is connected and error_count is back at 0
C20_Witness ==
    \E t \in Tasks :
        /\ pc[t] = "draining"
        /\ delays[t] >= 1
        /\ attempt[t] >= 1
        /\ connected
        /\ errorCount = 0

-----------------------------------------------------------------------------
(* Claims about large walls (checked under SpecLargeWall)                  *)

\* the errors by which set_video_wall_mode refuses its arguments
OutOfRange == {"Monitor count must be 1-15", "Position must be within monitor grid"}

\* no display has been refused the grid or the position of the planned layout
NoneRefused ==
    \A id \in DOMAIN wallResults : wallResults[id].error \notin OutOfRange

\* C24 (as claimed): for every number of displays and every layout the manager
\* enumerated for them, the grid and the positions configure_video_wall passes
\* are accepted by set_video_wall_mode, so that no display's result is an
\* out-of-range refusal.
C24_PlannedLayoutsApply ==
    wallLayout \in DOMAIN layouts => NoneRefused

\* what holds instead: layouts of walls of up to 15 displays are never refused,
\* and a refusal is always of the monitor count, never of a position
PlannedLayoutsApplyUpToFifteen ==
    wallLayout \in DOMAIN layouts =>
       /\ Len(displays) <= 15 => NoneRefused
       /\ \A id \in DOMAIN wallResults :
             wallResults[id].error # "Position must be within monitor grid"

\* the 16x1 layout of a wall of 16 displays, refused for every display
SixteenByOneRefused ==
    /\ Len(displays) = 16
    /\ wallLayout = <<16, 1>>
    /\ wallPc = "returned"
    /\ ~wallReturn.success
    /\ \A id \in 1..16 : wallResults[id].error = "Monitor count must be 1-15"

-----------------------------------------------------------------------------
(* Claims about the session's connection (checked under SpecSerial)        *)

\* a step in which disconnect() finishes, by returning or by raising
DisconnectFinishes ==
    /\ pc["user"] \in {"idle", "closing"}
    /\ pc'["user"] = "idle"
    /\ pc["monitor"] = "idle"
    /\ pc'["monitor"] = "idle"
    /\ request'.op = "disconnect"

\* C21 (as claimed): whenever disconnect() finishes, from whatever state it was
\* called in and whether or not closing the connection failed, the session is
\* not connected.
C21_DisconnectAlwaysDisconnects ==
    [][DisconnectFinishes => ~connected']_vars

\* disconnect() left through wait_closed()'s exception, the session still
\* marked connected over a closed writer
DisconnectRaisedStillConnected ==
    /\ request.op = "disconnect"
    /\ pc["user"] = "idle"
    /\ last.result = "raised"
    /\ request.found[1]
    /\ connected
    /\ writer = "closed"

\* the connect() awaited by task t opens a connection
ConnectOpens(t) ==
    /\ pc[t] \in {"connecting", "hcConnecting"}
    /\ pc'[t] = "draining"
    /\ writer' = "open"

\* C22 (as claimed): whenever connect() opens a connection, the connection the
\* session opened before it has been closed, so that the session never holds
\* two open connections.
C22_OneConnection ==
    [][\A t \in Tasks : ConnectOpens(t) => writer # "open"]_vars

\* a retry of send_command after a response timeout, reconnected while the
\* connection that timed out is still open behind it
ReconnectedOverOpenWriter ==
    /\ transport = "readTimesOut"
    /\ pc["user"] = "draining"
    /\ attempt["user"] >= 1
    /\ connected
    /\ writer = "open"

\* C23: when the operations on a session do not overlap, error_count is 0 or 1
\* in every state and is 1 only while the session is not connected, so the
\* error_count a health record carries is below 3 and the error count rule
\* raises no alert for it.
C23_ErrorCountAtMostOne ==
    /\ errorCount \in {0, 1}
    /\ errorCount = 1 => ~connected
    /\ health.error_count \in {0, 1}
    /\ health.error_count < 3
    /\ AfterErrorCount(<<>>, [display_id |-> DisplayId,
                              error_count |-> health.error_count], 0) = <<>>

\* a health check that found error_count at 1 after a command had failed on
\* write faults in all of its attempts
C23_Witness ==
    /\ last.result = "failed"
    /\ last.delays = 2
    /\ hcPhase = "done"
    /\ health.error_count = 1

\* error_count at 2: reached only when operations overlap
ErrorCountAboveOne == errorCount >= 2

-----------------------------------------------------------------------------
(* Claims about the validated setters (checked under SpecSetters)          *)

Setters == {"set_volume", "set_video_wall_mode"}

ArgumentsInRange ==
    IF request.op = "set_volume"
    THEN request.args[1] \in 0..100
    ELSE /\ request.args[2] \in 1..15
         /\ request.args[3] \in 1..15
         /\ request.args[4] \in 1..request.args[2]
         /\ request.args[5] \in 1..request.args[3]

\* C12: set_volume with a value outside 0..100, and set_video_wall_mode with a
\* monitor count outside 1..15 or a position outside the grid, return a failure
\* at once: no attempt is made, nothing is awaited, and connected, error_count
\* and last_response_time are what the call found.  Arguments inside the
\* ranges, set_volume(0) and set_volume(100) among them, reach send_command.
C12_ValidationShortCircuit ==
    request.op \in Setters =>
        /\ (request.error # "") <=> ~ArgumentsInRange
        /\ request.error # "" =>
              /\ pc["user"] = "idle"
              /\ last.result = "invalid"
              /\ last.attempts = 0
              /\ last.delays = 0
              /\ <<connected, errorCount, lastResponseTime>> = request.found
        /\ request.error = "" =>
              \/ pc["user"] \in {"connecting", "draining", "reading", "sleeping"}
              \/ last.result \in {"ok", "sent", "failed"} /\ last.attempts >= 1

\* set_volume(101) refused on a session an earlier call left connected
C12_Witness ==
    /\ request.op = "set_volume"
    /\ request.args = <<101>>
    /\ request.error # ""
    /\ request.found[1]
    /\ connected

\* set_volume(100) was handed to send_command and answered
VolumeBoundaryForwarded ==
    /\ request.op = "set_volume"
    /\ request.args = <<100>>
    /\ request.command = VOLUME
    /\ last.result = "ok"
    /\ pc["user"] = "idle"

-----------------------------------------------------------------------------
(* Claims about the alert store                                            *)

Distance(a, b) == IF a >= b THEN a - b ELSE b - a

\* the alert the latest _add_alert call was given
LastAlert == Alert(lastAdd.level, lastAdd.message, lastAdd.timestamp)

\* C4 (SpecAlerts): no two stored alerts of one message are less than 300
\* seconds apart; an _add_alert whose message is that of a stored alert with
\* timestamp > now - 300 leaves the store as it was; and a message whose stored
\* alerts are all more than 300 seconds old is stored as a new, last alert.
C4_Dedup ==
    /\ \A i, j \in 1..Len(alerts) :
          (i < j /\ alerts[i].message = alerts[j].message) =>
              Distance(alerts[i].timestamp, alerts[j].timestamp) >= 300
    /\ lastAdd.called =>
          LET same == {i \in 1..Len(lastAdd.before) :
                          lastAdd.before[i].message = lastAdd.message}
          IN /\ (\E i \in same :
                    lastAdd.before[i].timestamp > lastAdd.timestamp - 300)
                   => alerts = lastAdd.before
             /\ (\A i \in same :
                    lastAdd.timestamp - lastAdd.before[i].timestamp > 300)
                   => /\ alerts # <<>>
                      /\ alerts[Len(alerts)] = LastAlert

\* the store holds a message twice, and the latest call, made less than 300
\* seconds after the second of them, was turned away
C4_Witness ==
    /\ \E i, j \in 1..Len(alerts) :
          /\ i < j
          /\ alerts[i].message = alerts[j].message
          /\ alerts[j].message = lastAdd.message
          /\ lastAdd.timestamp > alerts[j].timestamp
          /\ lastAdd.timestamp - alerts[j].timestamp < 300
    /\ alerts = lastAdd.before
    /\ lastAdd.called

\* C5 (SpecCap): the store never holds more than 100 alerts, and it is the
\* latest min(n, 100) of the n alerts accepted so far, in the order they were
\* added, whatever their levels.
C5_CapFifo ==
    /\ Len(alerts) <= 100
    /\ LET n == Len(accepted)
           k == IF n < 100 THEN n ELSE 100
       IN /\ Len(alerts) = k
          /\ \A i \in 1..k : alerts[i] = accepted[n - k + i]

\* more than 100 alerts were accepted and the first, a critical one, is gone
\* while warnings stay
C5_Witness ==
    /\ Len(accepted) > 100
    /\ Len(alerts) = 100
    /\ accepted[1].level = "critical"
    /\ \A i \in 1..Len(alerts) : alerts[i].level = "warning"

-----------------------------------------------------------------------------
(* Claims about the monitoring loop (checked under SpecMonitor)            *)

\* C6: a finished cycle has handed over exactly one record per display, in
\* the adapters' order, and only once every check was over; a check that
\* raised, or whose connect failed, is a record with connected and responsive
\* false; a probe left unanswered is a record with responsive false; and a
\* display that answered has a connected, responsive record whatever became of
\* the others.
C6_CycleRecords ==
    loopPc = "sleeping" =>
        /\ AllChecksDone
        /\ Len(cycleRecords) = NumDisplays
        /\ \A d \in Displays :
              /\ cycleRecords[d].display_id = d
              /\ cycleRecords[d] = results[d]
              /\ outcome[d] \in {"raised", "unreachable"} =>
                    ~cycleRecords[d].connected /\ ~cycleRecords[d].responsive
              /\ outcome[d] = "silent" => ~cycleRecords[d].responsive
              /\ outcome[d] = "healthy" =>
                    cycleRecords[d].connected /\ cycleRecords[d].responsive

\* a finished cycle in which one check raised and another display answered
C6_Witness ==
    /\ loopPc = "sleeping"
    /\ \E d, e \in Displays :
          /\ outcome[d] = "raised"
          /\ cycleRecords[d].error
          /\ ~cycleRecords[d].connected
          /\ outcome[e] = "healthy"
          /\ cycleRecords[e].responsive

\* C7: stop_monitoring changes the flag and nothing else; a cycle under way
\* ends only by gather returning every display's record to the alert engine;
\* the loop that wakes with the flag cleared returns, and it returns at no
\* other point; once it has returned no cycle is run.
C7_CooperativeStop ==
    [][/\ (monitoringActive /\ ~monitoringActive') =>
              UNCHANGED <<loopPc, adapters, chk, results, cycleRecords, cycles,
                          outcome, alerts, now>>
       /\ (loopPc = "gather" /\ loopPc' # "gather") =>
              /\ AllChecksDone
              /\ loopPc' = "sleeping"
              /\ cycles' = cycles + 1
              /\ cycleRecords' = [i \in 1..NumDisplays |-> results[i]]
       /\ (loopPc = "sleeping" /\ ~monitoringActive /\ loopPc' # "sleeping") =>
              loopPc' = "exited"
       /\ (loopPc' = "exited" /\ loopPc # "exited") =>
              loopPc = "sleeping" /\ ~monitoringActive
       /\ loopPc = "exited" =>
              loopPc' = "exited" /\ cycles' = cycles /\ chk' = chk
      ]_vars

\* the flag was cleared during the gather of the first cycle, that cycle was
\* finished, and the loop has returned without a second one
C7_Witness ==
    /\ loopPc = "exited"
    /\ stopAt = "gather"
    /\ cycles = 1
    /\ Len(cycleRecords) = NumDisplays
    /\ AllChecksDone

\* C25 (as claimed): once stop_monitoring has been called after the loop was
\* launched, be it before the loop task ran its first step, and the loop is
\* not started again, the loop eventually returns, every health check and
\* sleep completing.
C25_StopTerminates ==
    (stopAt # "never") ~> (loopPc = "exited")

\* what holds instead: a stop_monitoring called once the loop task has run its
\* first step leads to the return of the loop
StopOfRunningLoopTerminates ==
    (stopAt \in {"gather", "sleeping"}) ~> (loopPc = "exited")

\* stop_monitoring was called between create_task and the first step of the
\* task, and the loop has set the flag again and runs a cycle past those counted
StopBeforeFirstStepLost ==
    /\ stopAt = "scheduled"
    /\ monitoringActive
    /\ loopPc = "gather"
    /\ cycles = MaxCycles - 1
    /\ now >= 1 + (MaxCycles - 1) * MonitoringInterval
    /\ Len(cycleRecords) = NumDisplays
    /\ AllChecksDone

\* the flag is cleared by no step of the loop: a loop whose flag is set runs
\* on until stop_monitoring is called again
FlagClearedOnlyByStop ==
    [][(monitoringActive /\ ~monitoringActive') => stopAt' = loopPc]_vars

-----------------------------------------------------------------------------
(* Claims about the layout manager (checked under SpecWall)                *)

GridCell(position) == <<position.horizontal_position, position.vertical_position>>

\* C13: for N displays the layouts are exactly the h x v with h * v = N (for 4
\* displays 1x4, 2x2 and 4x1); in each, the i-th display in iteration order,
\* counted from 0, is at ((i mod h) + 1, (i div h) + 1), and the positions are a
\* bijection from the displays onto the cells of the h x v grid.
C13_LayoutPlanner ==
    wallPc # "new" =>
        LET N == Len(displays)
        IN /\ DOMAIN layouts = {name \in (1..N) \X (1..N) : name[1] * name[2] = N}
           /\ N = 4 => DOMAIN layouts = {<<1, 4>>, <<2, 2>>, <<4, 1>>}
           /\ \A name \in DOMAIN layouts :
                 LET layout == layouts[name]
                     h == layout.horizontal
                     v == layout.vertical
                     mapping == layout.display_mapping
                 IN /\ <<h, v>> = name
                    /\ h * v = N
                    /\ DOMAIN mapping = {displays[k] : k \in 1..N}
                    /\ \A k \in 1..N :
                          GridCell(mapping[displays[k]]) =
                              <<((k - 1) % h) + 1, ((k - 1) \div h) + 1>>
                    /\ {GridCell(mapping[id]) : id \in DOMAIN mapping} = (1..h) \X (1..v)
                    /\ \A a, b \in DOMAIN mapping :
                          GridCell(mapping[a]) = GridCell(mapping[b]) => a = b

\* four displays listed out of numerical order, with the 2x2 layout planned
C13_Witness ==
    /\ wallPc = "planned"
    /\ displays = <<3, 1, 4, 2>>
    /\ <<2, 2>> \in DOMAIN layouts
    /\ GridCell(layouts[<<2, 2>>].display_mapping[4]) = <<1, 2>>
    /\ GridCell(layouts[<<4, 1>>].display_mapping[2]) = <<4, 1>>

\* C14: configure_video_wall stores one result for every display of the chosen
\* layout's mapping, each exactly once and whatever the earlier results were: a
\* display without an adapter gets 'Adapter not found', a display whose command
\* failed gets that failure, and the call reports success exactly when every
\* stored result is a success.
C14_ConfigureAll ==
    (wallPc = "returned" /\ wallLayout \in DOMAIN layouts) =>
        LET mapped == DOMAIN layouts[wallLayout].display_mapping
            res == wallReturn.results
        IN /\ Len(wallOrder) = Cardinality(mapped)
           /\ {wallOrder[k] : k \in 1..Len(wallOrder)} = mapped
           /\ DOMAIN res = mapped
           /\ \A id \in mapped :
                 (id \notin wallAdapters) <=> (res[id].error = "Adapter not found")
           /\ \A id \in mapped : res[id].success => id \in wallAdapters
           /\ wallReturn.success <=> \A id \in mapped : res[id].success

\* a configuration in which the first display had no adapter, a later display's
\* command failed, and a display after both was still configured
C14_Witness ==
    /\ wallPc = "returned"
    /\ wallLayout \in DOMAIN layouts
    /\ Len(wallOrder) = 4
    /\ wallOrder[1] \notin wallAdapters
    /\ wallReturn.results[wallOrder[2]].error = "Failed after 3 attempts"
    /\ wallReturn.results[wallOrder[4]].success
    /\ ~wallReturn.success

-----------------------------------------------------------------------------
(* Claims about the system status (checked under SpecStatus and             *)
(* SpecFleetStatus)                                                         *)

RecentNow == {i \in 1..Len(alerts) : alerts[i].timestamp > now - 3600}

\* C15: system_health is healthy exactly when no alert has a timestamp later
\* than now - 3600 s, critical exactly when one of those has level critical,
\* and warning otherwise, also when they are all of level error; older alerts
\* have no influence.
C15_SystemHealth ==
    status.called =>
        /\ status.system_health = "healthy" <=> RecentNow = {}
        /\ status.system_health = "critical" <=>
              \E i \in RecentNow : alerts[i].level = "critical"
        /\ status.system_health = "warning" <=>
              /\ RecentNow # {}
              /\ \A i \in RecentNow : alerts[i].level # "critical"
        /\ status.recent_alerts = Cardinality(RecentNow)

\* a critical alert exactly an hour old and a newer error alert: warning
C15_Witness ==
    /\ status.called
    /\ Len(alerts) = 2
    /\ alerts[1].level = "critical"
    /\ alerts[1].timestamp = now - 3600
    /\ alerts[2].level = "error"
    /\ alerts[2].timestamp = now - 3599
    /\ status.system_health = "warning"

RecordsWith(field) ==
    Cardinality({i \in 1..Len(cycleRecords) : cycleRecords[i][field]})

\* C16 (as claimed): a status asked for after a monitoring cycle has finished
\* reports as connected the number of that cycle's records with connected = true
\* and as responsive the number with responsive = true.
C16_CountsFromLastCycle ==
    (status.called /\ status.after_cycles >= 1 /\ status.after_cycles = cycles) =>
        /\ status.connected_displays = RecordsWith("connected")
        /\ status.responsive_displays = RecordsWith("responsive")

\* a status taken after a cycle in which a display answered, reporting no
\* responsive display
NoResponsiveReported ==
    /\ status.called
    /\ status.after_cycles = cycles
    /\ cycles >= 1
    /\ RecordsWith("responsive") >= 1
    /\ status.responsive_displays = 0

-----------------------------------------------------------------------------
(* Claims about the alert rules (checked under SpecRules)                  *)

\* the alerts in the store, as <<level, rule>>
Raised == {<<alerts[i].level, alerts[i].message[1]>> : i \in 1..Len(alerts)}

\* C17: a record with temperature >= 80 raises the critical temperature alert
\* and not the warning, one with 70 <= temperature < 80 the warning and not the
\* critical, one below 70 neither; a record that is not connected raises an
\* error, one connected and not responsive a warning, one connected and
\* responsive neither; a last response more than 10 s old raises a warning, and
\* so does an error count of 3 or more; no other alert is raised.
C17_AlertRules ==
    cycleRecords # <<>> =>
        LET h == cycleRecords[1]
            expected ==
                (IF h.temperature >= 80 THEN {<<"critical", "temperature critical">>}
                 ELSE IF h.temperature >= 70 THEN {<<"warning", "temperature high">>}
                 ELSE {})
                \cup (IF ~h.connected THEN {<<"error", "not connected">>}
                      ELSE IF ~h.responsive THEN {<<"warning", "not responding">>}
                      ELSE {})
                \cup (IF h.last_response # 0 /\ now - h.last_response > 10
                      THEN {<<"warning", "last response">>} ELSE {})
                \cup (IF h.error_count >= 3 THEN {<<"warning", "errors">>} ELSE {})
        IN /\ Raised = expected
           /\ Len(alerts) = Cardinality(expected)
           /\ \A i \in 1..Len(alerts) : alerts[i].message[2] = h.display_id

\* a record at the critical threshold, answered 11 s ago, with 3 errors
C17_Witness ==
    /\ cycleRecords # <<>>
    /\ cycleRecords[1].temperature = 80
    /\ cycleRecords[1].last_response = now - 11
    /\ cycleRecords[1].error_count = 3
    /\ Len(alerts) = 3
    /\ alerts[1].level = "critical"

====
